---- MODULE Spec2Model ----
(***************************************************************************)
(* gptPerfect (src/gpt.ts): the retry loop that asks a chat-completion     *)
(* provider for JSON, normalizes the quotes of the answer, parses it,      *)
(* validates it against the expected response format and retries with the  *)
(* error of the failed attempt.                                            *)
(*                                                                         *)
(* Texts are sequences of one-character strings.  JSON values are tagged   *)
(* records; an object is the sequence of its members in insertion order.   *)
(***************************************************************************)
EXTENDS Integers, Sequences, FiniteSets, TLC

VARIABLES
  userInputPrompt,         \* argument: a text, or a list of texts
  expectedResponseFormat,  \* argument: the expected format (a JSON object)
  config,                  \* argument: StrictOutputConfig after defaults
  pc,                      \* "loop" | "await" | "done"; "normalize" |
                           \* "normalized" when parseAIResponse runs alone
  i,                       \* loop index of gptPerfect
  errorMessage,            \* '' is <<>>, otherwise one error description
  prompt,                  \* prompt of the current iteration, <<>> outside
  inflight,                \* completion requests issued and not yet answered
  response,                \* content of the first choice of the latest completion
  result,                  \* normalized text of the latest completion
  output,                  \* validated output of the latest passing attempt
  outcome,                 \* what the invocation gave back to its caller
  requests,                \* history: completion requests issued
  received,                \* history: completions the provider returned
  passed,                  \* history: index of the attempt that passed, or 0
  lastFailure,             \* history: the latest attempt that failed validation
  failedAt                 \* history: the request that the provider failed

vars == <<userInputPrompt, expectedResponseFormat, config, pc, i, errorMessage,
          prompt, inflight, response, result, output, outcome, requests,
          received, passed, lastFailure, failedAt>>

(***************************************************************************)
(* Bounds of the checked instances.                                        *)
(***************************************************************************)
MaxAttemptsBound == 3
MaxInputLen == 2
MaxTextLen == 5

(***************************************************************************)
(* Characters and JSON values.                                             *)
(***************************************************************************)
DQ == "\""
SQ == "'"
BS == "\\"

Digits == {"0", "1", "2", "3", "4", "5", "6", "7", "8", "9"}
Letters == {"a", "b", "c", "d", "e", "f", "g", "h", "i", "j", "k", "l", "m",
            "n", "o", "p", "q", "r", "s", "t", "u", "v", "w", "x", "y", "z"}

\* \w of a JavaScript regular expression (no upper case in the alphabet used)
IsWord(ch) == ch \in Letters \cup Digits \cup {"_"}

DigitVal(ch) ==
  CASE ch = "0" -> 0 [] ch = "1" -> 1 [] ch = "2" -> 2 [] ch = "3" -> 3
    [] ch = "4" -> 4 [] ch = "5" -> 5 [] ch = "6" -> 6 [] ch = "7" -> 7
    [] ch = "8" -> 8 [] ch = "9" -> 9

Undefined == [t |-> "undefined"]
Null == [t |-> "null"]
Bool(b) == [t |-> "bool", b |-> b]
Num(n) == [t |-> "num", n |-> n]
Str(s) == [t |-> "str", s |-> s]
Arr(a) == [t |-> "arr", a |-> a]
Obj(p) == [t |-> "obj", p |-> p]
Member(k, v) == [k |-> k, v |-> v]

IsArray(v) == v.t = "arr"

(***************************************************************************)
(* parseAIResponse: the content of the first choice, every single quote    *)
(* turned into a double quote, then every double quote between two word    *)
(* characters turned back into a single quote.  The second replace is a    *)
(* global regular-expression replace: matches are found left to right and  *)
(* do not overlap, the search resumes after the three matched characters.  *)
(***************************************************************************)
ReplaceQuotes(s) == [n \in 1..Len(s) |-> IF s[n] = SQ THEN DQ ELSE s[n]]

RECURSIVE RestoreApostrophes(_, _)
RestoreApostrophes(s, n) ==
  IF n > Len(s) THEN <<>>
  ELSE IF n + 2 <= Len(s) /\ IsWord(s[n]) /\ s[n + 1] = DQ /\ IsWord(s[n + 2])
       THEN <<s[n], SQ, s[n + 2]>> \o RestoreApostrophes(s, n + 3)
       ELSE <<s[n]>> \o RestoreApostrophes(s, n + 1)

\* content is a string, or Null when the message carries no content
parseAIResponse(content) ==
  LET replaced == IF content = Null THEN <<>> ELSE ReplaceQuotes(content.s)
  IN  RestoreApostrophes(replaced, 1)

(***************************************************************************)
(* JSON.parse on texts without white space and without escapes: objects,   *)
(* arrays, strings, non-negative integers, true, false, null.  A parse     *)
(* step returns [ok, v, pos]: the value and the position after it.         *)
(***************************************************************************)
ParseFail == [ok |-> FALSE, v |-> Null, pos |-> 0]
ParseOk(v, pos) == [ok |-> TRUE, v |-> v, pos |-> pos]

HasAt(s, n, word) ==
  /\ n + Len(word) - 1 <= Len(s)
  /\ \A j \in 1..Len(word) : s[n + j - 1] = word[j]

\* position of the first double quote at or after n, 0 when there is none
RECURSIVE ClosingQuote(_, _)
ClosingQuote(s, n) ==
  IF n > Len(s) THEN 0
  ELSE IF s[n] = DQ THEN n
  ELSE IF s[n] = BS THEN 0
  ELSE ClosingQuote(s, n + 1)

ParseString(s, n) ==
  LET close == ClosingQuote(s, n + 1)
  IN  IF close = 0 THEN ParseFail
      ELSE ParseOk(Str(SubSeq(s, n + 1, close - 1)), close + 1)

RECURSIVE DigitsEnd(_, _)
DigitsEnd(s, n) ==
  IF n <= Len(s) /\ s[n] \in Digits THEN DigitsEnd(s, n + 1) ELSE n

RECURSIVE DigitsValue(_, _, _)
DigitsValue(s, from, to) ==
  IF to < from THEN 0
  ELSE 10 * DigitsValue(s, from, to - 1) + DigitVal(s[to])

ParseNumber(s, n) ==
  LET end == DigitsEnd(s, n)
  IN  IF s[n] = "0" /\ end > n + 1 THEN ParseFail
      ELSE ParseOk(Num(DigitsValue(s, n, end - 1)), end)

\* JSON.parse keeps the last value of a repeated key, at the key's first place
PutMember(p, k, v) ==
  IF \E n \in 1..Len(p) : p[n].k = k
  THEN [n \in 1..Len(p) |-> IF p[n].k = k THEN Member(k, v) ELSE p[n]]
  ELSE Append(p, Member(k, v))

RECURSIVE ParseValue(_, _), ParseElements(_, _, _), ParseMembers(_, _, _)
ParseValue(s, n) ==
  IF n > Len(s) THEN ParseFail
  ELSE CASE s[n] = "{" ->
              IF n + 1 <= Len(s) /\ s[n + 1] = "}"
              THEN ParseOk(Obj(<<>>), n + 2)
              ELSE ParseMembers(s, n + 1, <<>>)
         [] s[n] = "[" ->
              IF n + 1 <= Len(s) /\ s[n + 1] = "]"
              THEN ParseOk(Arr(<<>>), n + 2)
              ELSE ParseElements(s, n + 1, <<>>)
         [] s[n] = DQ -> ParseString(s, n)
         [] s[n] \in Digits -> ParseNumber(s, n)
         [] HasAt(s, n, <<"n", "u", "l", "l">>) -> ParseOk(Null, n + 4)
         [] HasAt(s, n, <<"t", "r", "u", "e">>) -> ParseOk(Bool(TRUE), n + 4)
         [] HasAt(s, n, <<"f", "a", "l", "s", "e">>) ->
              ParseOk(Bool(FALSE), n + 5)
         [] OTHER -> ParseFail

\* the elements of an array from position n on, acc holds those already read
ParseElements(s, n, acc) ==
  LET e == ParseValue(s, n)
  IN  IF ~e.ok \/ e.pos > Len(s) THEN ParseFail
      ELSE IF s[e.pos] = "]" THEN ParseOk(Arr(Append(acc, e.v)), e.pos + 1)
      ELSE IF s[e.pos] = "," THEN ParseElements(s, e.pos + 1, Append(acc, e.v))
      ELSE ParseFail

\* the members of an object from position n on, acc holds those already read
ParseMembers(s, n, acc) ==
  IF n > Len(s) \/ s[n] # DQ THEN ParseFail
  ELSE LET k == ParseString(s, n)
       IN  IF ~k.ok \/ k.pos > Len(s) \/ s[k.pos] # ":" THEN ParseFail
           ELSE LET e == ParseValue(s, k.pos + 1)
                    p == PutMember(acc, k.v.s, e.v)
                IN  IF ~e.ok \/ e.pos > Len(s) THEN ParseFail
                    ELSE IF s[e.pos] = "}" THEN ParseOk(Obj(p), e.pos + 1)
                    ELSE IF s[e.pos] = "," THEN ParseMembers(s, e.pos + 1, p)
                    ELSE ParseFail

\* [ok |-> TRUE, v |-> value], or [ok |-> FALSE] for a SyntaxError
JSONparse(s) ==
  LET r == ParseValue(s, 1)
  IN  IF r.ok /\ r.pos = Len(s) + 1
      THEN [ok |-> TRUE, v |-> r.v]
      ELSE [ok |-> FALSE, v |-> Null]

(***************************************************************************)
(* JSON.stringify of a JSON value (numbers are non-negative integers).     *)
(***************************************************************************)
RECURSIVE Escape(_)
Escape(s) ==
  IF s = <<>> THEN <<>>
  ELSE (IF Head(s) \in {DQ, BS} THEN <<BS, Head(s)>> ELSE <<Head(s)>>)
       \o Escape(Tail(s))

Quote(s) == <<DQ>> \o Escape(s) \o <<DQ>>

DigitChar(d) ==
  CASE d = 0 -> "0" [] d = 1 -> "1" [] d = 2 -> "2" [] d = 3 -> "3"
    [] d = 4 -> "4" [] d = 5 -> "5" [] d = 6 -> "6" [] d = 7 -> "7"
    [] d = 8 -> "8" [] d = 9 -> "9"

RECURSIVE NumberText(_)
NumberText(n) ==
  IF n < 10 THEN <<DigitChar(n)>>
  ELSE Append(NumberText(n \div 10), DigitChar(n % 10))

RECURSIVE JSONstringify(_), JoinElements(_), JoinMembers(_)
JSONstringify(v) ==
  CASE v.t = "str" -> Quote(v.s)
    [] v.t = "num" -> NumberText(v.n)
    [] v.t = "bool" -> IF v.b THEN <<"t", "r", "u", "e">>
                       ELSE <<"f", "a", "l", "s", "e">>
    [] v.t = "null" -> <<"n", "u", "l", "l">>
    [] v.t = "arr" -> <<"[">> \o JoinElements(v.a) \o <<"]">>
    [] v.t = "obj" -> <<"{">> \o JoinMembers(v.p) \o <<"}">>

JoinElements(a) ==
  IF a = <<>> THEN <<>>
  ELSE JSONstringify(Head(a))
       \o (IF Len(a) > 1 THEN <<",">> \o JoinElements(Tail(a)) ELSE <<>>)

JoinMembers(p) ==
  IF p = <<>> THEN <<>>
  ELSE Quote(Head(p).k) \o <<":">> \o JSONstringify(Head(p).v)
       \o (IF Len(p) > 1 THEN <<",">> \o JoinMembers(Tail(p)) ELSE <<>>)

(***************************************************************************)
(* Errors.  An error is its name and its message; `${e}` is "name: message" *)
(* A string built by a template is the sequence of its pieces.             *)
(***************************************************************************)
Err(name, message) == [name |-> name, message |-> message]

NoError == Err("", <<>>)
SyntaxError == Err("SyntaxError", <<"Unexpected token in JSON">>)
NotArrayError == Err("Error", <<"Output format not in an array of json">>)
MissingKeyError(key) == Err("Error", key \o <<" not in json output">>)
TypeError(what) == Err("TypeError", <<what>>)

ErrorToString(e) == <<e.name, ": ">> \o e.message

Ok(item) == [ok |-> TRUE, item |-> item, error |-> NoError]
Fail(e) == [ok |-> FALSE, item |-> Undefined, error |-> e]

(***************************************************************************)
(* Property access on a parsed value.  The keys of the expected formats    *)
(* used here are neither "length" nor names inherited from                  *)
(* Object.prototype, so `in` on an object is membership of its own keys,   *)
(* and on an array it is the test for an index.                            *)
(***************************************************************************)
IsIndex(key, len) ==
  /\ key # <<>>
  /\ \A n \in 1..Len(key) : key[n] \in Digits
  /\ (Len(key) > 1 => key[1] # "0")
  /\ DigitsValue(key, 1, Len(key)) < len

HasKey(item, key) ==
  CASE item.t = "obj" -> \E n \in 1..Len(item.p) : item.p[n].k = key
    [] item.t = "arr" -> IsIndex(key, Len(item.a))

Get(item, key) ==
  CASE item.t = "obj" ->
         IF HasKey(item, key)
         THEN item.p[CHOOSE n \in 1..Len(item.p) : item.p[n].k = key].v
         ELSE Undefined
    [] item.t = "arr" ->
         IF HasKey(item, key)
         THEN item.a[DigitsValue(key, 1, Len(key)) + 1]
         ELSE Undefined

\* item[key] = v, for a key the item has
Set(item, key, v) ==
  CASE item.t = "obj" -> Obj(PutMember(item.p, key, v))
    [] item.t = "arr" ->
         Arr([item.a EXCEPT ![DigitsValue(key, 1, Len(key)) + 1] = v])

\* Array.prototype.includes: primitives compare by value, objects and
\* arrays by identity, and a freshly parsed one is identical to no choice
Includes(choices, v) ==
  /\ v.t \notin {"obj", "arr"}
  /\ \E n \in 1..Len(choices) : choices[n] = v

HasColon(s) == \E n \in 1..Len(s) : s[n] = ":"

\* s.split(':')[0]
BeforeColon(s) ==
  IF HasColon(s)
  THEN SubSeq(s, 1, (CHOOSE n \in 1..Len(s) :
                        s[n] = ":" /\ \A j \in 1..(n - 1) : s[j] # ":") - 1)
  ELSE s

\* /<.*?>/.test(text): a "<" followed, on the same line, by a ">"
HasPlaceholder(text) ==
  \E a, b \in 1..Len(text) :
    /\ a < b /\ text[a] = "<" /\ text[b] = ">"
    /\ \A j \in (a + 1)..(b - 1) : text[j] # "\n"

\* /\[.*?\]/.test(text)
HasBrackets(text) ==
  \E a, b \in 1..Len(text) :
    /\ a < b /\ text[a] = "[" /\ text[b] = "]"
    /\ \A j \in (a + 1)..(b - 1) : text[j] # "\n"

expectedDynamicOutput(jsonifiedFormat) == HasPlaceholder(jsonifiedFormat)
expectedListOutput(jsonifiedFormat) == HasBrackets(jsonifiedFormat)

(***************************************************************************)
(* processOutputField: for a field whose expected value is an array of     *)
(* choices, collapse an array value to its first element, substitute the   *)
(* default for a value that is no choice, cut the value at its first colon.*)
(* defaultResponse is a text, <<>> is the empty string.                    *)
(***************************************************************************)
\* lines 350-353: an array value becomes its first element
CollapseField(item, key, value) ==
  IF IsArray(value)
  THEN Set(item, key, IF value.a = <<>> THEN Undefined ELSE value.a[1])
  ELSE item

DefaultFieldKeepsValue(item, key, choices, defaultResponse) == item

\* lines 355-358: a value that is no choice becomes the default, if any
DefaultField(item, key, choices, defaultResponse) ==
  IF ~Includes(choices, Get(item, key)) /\ defaultResponse # <<>>
  THEN Set(item, key, Str(defaultResponse))
  ELSE item

\* lines 360-363: item[key].includes(':') and item[key].split(':')[0]
TruncateField(item, key, value) ==
  CASE value.t = "str" ->
         IF HasColon(value.s)
         THEN Ok(Set(item, key, Str(BeforeColon(value.s))))
         ELSE Ok(item)
    [] value.t = "arr" ->
         IF \E n \in 1..Len(value.a) : value.a[n] = Str(<<":">>)
         THEN Fail(TypeError("item[key].split is not a function"))
         ELSE Ok(item)
    [] value.t \in {"undefined", "null"} ->
         Fail(TypeError("Cannot read properties of undefined or null"))
    [] OTHER ->
         Fail(TypeError("item[key].includes is not a function"))

FieldOf(item, key) == TruncateField(item, key, Get(item, key))

processOutputFieldNoTruncation(item, key, format, defaultResponse) ==
  IF ~IsArray(Get(format, key)) THEN Ok(item)
  ELSE Ok(DefaultField(CollapseField(item, key, Get(item, key)), key,
                       Get(format, key).a, defaultResponse))

DefaultAfter(r, key, choices, defaultResponse) ==
  IF ~r.ok THEN r ELSE Ok(DefaultField(r.item, key, choices, defaultResponse))

processOutputFieldTruncatesFirst(item, key, format, defaultResponse) ==
  IF ~IsArray(Get(format, key)) THEN Ok(item)
  ELSE DefaultAfter(FieldOf(CollapseField(item, key, Get(item, key)), key),
                    key, Get(format, key).a, defaultResponse)

\* lines 339-365
processOutputField(item, key, format, defaultResponse) ==
  IF ~IsArray(Get(format, key)) THEN Ok(item)
  ELSE FieldOf(DefaultField(CollapseField(item, key, Get(item, key)), key,
                            Get(format, key).a, defaultResponse), key)

FormatKeys(format) == [n \in 1..Len(format.p) |-> format.p[n].k]

\* the body of the for-in loop of validateOutputItem for the first of the
\* keys not yet visited, and the loop over the others once its field is
\* processed (r)
RECURSIVE ValidateKeys(_, _, _, _), ValidateOtherKeys(_, _, _, _)
ValidateKeys(item, keys, format, defaultResponse) ==
  IF keys = <<>> THEN Ok(item)
  ELSE IF HasPlaceholder(Head(keys))
  THEN ValidateKeys(item, Tail(keys), format, defaultResponse)
  ELSE IF item.t \notin {"obj", "arr"}
  THEN Fail(TypeError("Cannot use 'in' operator"))
  ELSE IF ~HasKey(item, Head(keys)) THEN Fail(MissingKeyError(Head(keys)))
  ELSE ValidateOtherKeys(
         processOutputField(item, Head(keys), format, defaultResponse),
         Tail(keys), format, defaultResponse)

ValidateOtherKeys(r, keys, format, defaultResponse) ==
  IF ~r.ok THEN r ELSE ValidateKeys(r.item, keys, format, defaultResponse)

\* Object.values of a parsed value
ObjectValues(item) ==
  CASE item.t = "obj" -> [n \in 1..Len(item.p) |-> item.p[n].v]
    [] item.t = "arr" -> item.a
    [] item.t = "str" -> [n \in 1..Len(item.s) |-> Str(<<item.s[n]>>)]
    [] OTHER -> <<>>

ItemFailed(e) ==
  [ok |-> FALSE, item |-> Undefined, local |-> Undefined, error |-> e]

\* lines 322-325, r being the outcome of the loop over the keys: the caller
\* sees the assignments made to the fields of its item (.item); line 324
\* assigns the parameter, which is local to the function (.local).
\* Object.values throws on null.
ProjectItem(r, returnValuesOnly) ==
  IF ~r.ok THEN ItemFailed(r.error)
  ELSE IF ~returnValuesOnly
  THEN [ok |-> TRUE, item |-> r.item, local |-> r.item, error |-> NoError]
  ELSE IF r.item.t \in {"undefined", "null"}
  THEN ItemFailed(TypeError("Cannot convert undefined or null to object"))
  ELSE [ok |-> TRUE, item |-> r.item, local |-> Arr(ObjectValues(r.item)),
        error |-> NoError]

\* lines 301-326
validateOutputItem(item, format, defaultResponse, returnValuesOnly) ==
  ProjectItem(ValidateKeys(item, FormatKeys(format), format, defaultResponse),
              returnValuesOnly)

\* output.forEach(validateOutputItem): the items from index n on, and the
\* items after n once item n is validated (r)
RECURSIVE ValidateItems(_, _, _, _, _), ValidateOtherItems(_, _, _, _, _, _)
ValidateItems(items, n, format, defaultResponse, returnValuesOnly) ==
  IF n > Len(items) THEN [ok |-> TRUE, output |-> items, error |-> NoError]
  ELSE ValidateOtherItems(
         validateOutputItem(items[n], format, defaultResponse, returnValuesOnly),
         items, n, format, defaultResponse, returnValuesOnly)

ValidateOtherItemsSkipping(r, items, n, format, defaultResponse, returnValuesOnly) ==
  ValidateItems(IF r.ok THEN [items EXCEPT ![n] = r.item] ELSE items, n + 1,
                format, defaultResponse, returnValuesOnly)

ValidateOtherItems(r, items, n, format, defaultResponse, returnValuesOnly) ==
  IF ~r.ok THEN [ok |-> FALSE, output |-> <<>>, error |-> r.error]
  ELSE ValidateItems([items EXCEPT ![n] = r.item], n + 1, format,
                     defaultResponse, returnValuesOnly)

ValidateParsedWrapping(parsed, isList, format, defaultResponse, returnValuesOnly) ==
  IF ~parsed.ok THEN [ok |-> FALSE, output |-> <<>>, error |-> SyntaxError]
  ELSE ValidateItems(IF isList /\ IsArray(parsed.v) THEN parsed.v.a
                     ELSE <<parsed.v>>,
                     1, format, defaultResponse, returnValuesOnly)

\* lines 256-276, parsed being the outcome of JSON.parse(result)
ValidateParsed(parsed, isList, format, defaultResponse, returnValuesOnly) ==
  IF ~parsed.ok THEN [ok |-> FALSE, output |-> <<>>, error |-> SyntaxError]
  ELSE IF isList /\ ~IsArray(parsed.v)
  THEN [ok |-> FALSE, output |-> <<>>, error |-> NotArrayError]
  ELSE ValidateItems(IF isList THEN parsed.v.a ELSE <<parsed.v>>, 1,
                     format, defaultResponse, returnValuesOnly)

\* lines 248-277
validateAndFormatOutput(text, isList, format, defaultResponse, returnValuesOnly) ==
  ValidateParsed(JSONparse(text), isList, format, defaultResponse,
                 returnValuesOnly)

formatErrorMessage(text, error) ==
  <<"Result:\n">> \o text \o <<"\n\nError Message:\n">> \o ErrorToString(error)

(***************************************************************************)
(* buildPrompt and the completion request.                                 *)
(***************************************************************************)
ErrorHeader == "\nError Message:\n"

PromptInstructions(systemPrompt, format, expectedList, expectedDynamic, isListInput) ==
  systemPrompt \o <<"\n\nOutput Format Instructions:\n">>
  \o <<"Output the following in JSON format: ">> \o JSONstringify(format)
  \o <<".\n">>
  \o <<"Avoid quotation marks or escape characters (\\) in the output fields.\n">>
  \o (IF expectedList
      THEN <<"If an output field is a list, output it as an array of objects.\n">>
      ELSE <<>>)
  \o (IF expectedDynamic
      THEN <<"Replace content enclosed by < and > with appropriate generated content. For example, '<location>' should be replaced with a specific location like 'the garden'.\n">>
      ELSE <<>>)
  \o (IF isListInput
      THEN <<"For each input element, generate a separate JSON object in an array.\n">>
      ELSE <<>>)

buildPromptWithoutError(systemPrompt, format, expectedList, expectedDynamic, isListInput, message) ==
  PromptInstructions(systemPrompt, format, expectedList, expectedDynamic,
                     isListInput)

\* lines 145-177: the instructions, then the error message of the previous
\* attempt when there is one
buildPrompt(systemPrompt, format, expectedList, expectedDynamic, isListInput, message) ==
  PromptInstructions(systemPrompt, format, expectedList, expectedDynamic,
                     isListInput)
  \o (IF message # <<>> THEN <<ErrorHeader>> \o message \o <<"\n">> ELSE <<>>)

\* userInputPrompt.toString(): the text, or the texts joined by commas
RECURSIVE JoinTexts(_)
JoinTexts(a) ==
  IF a = <<>> THEN <<>>
  ELSE Head(a).s \o (IF Len(a) > 1 THEN <<",">> \o JoinTexts(Tail(a)) ELSE <<>>)

InputToString(input) == IF IsArray(input) THEN JoinTexts(input.a) ELSE input.s

\* the argument of openai.chat.completions.create
getAIResponse(system, temperature, aiModel, input) ==
  [model |-> aiModel, temperature |-> temperature, system |-> system,
   user |-> InputToString(input)]

(***************************************************************************)
(* The instances: arguments of gptPerfect and answers of the provider.     *)
(***************************************************************************)
SystemPrompt == <<"Classify the mood.">>

Text(s) == Str(s)

UserInputs ==
  {Text(<<"a">>)}
  \cup {Arr([n \in 1..len |-> Text(<<"a">>)]) : len \in 1..MaxInputLen}

Choices == Arr(<<Str(<<"h">>), Str(<<"s">>)>>)

\* choices of which one holds a colon
ColonChoices == Arr(<<Str(<<"h", ":", "x">>), Str(<<"s">>)>>)

ExpectedFormats ==
  { Obj(<<>>),
    Obj(<<Member(<<"<", "i", ">">>, Str(<<"x">>))>>),
    Obj(<<Member(<<"m">>, Choices)>>),
    Obj(<<Member(<<"m">>, ColonChoices)>>),
    Obj(<<Member(<<"m">>, Choices), Member(<<"c">>, Str(<<"<", "g", ">">>))>>) }

DefaultResponses == {<<>>, <<"n">>, <<"n", ":", "x">>}

DefaultModel == "gpt-3.5-turbo"
DefaultTemperature == "0.2"

Configs ==
  [defaultResponse : DefaultResponses,
   returnValuesOnly : BOOLEAN,
   aiModel : {DefaultModel},
   temperature : {DefaultTemperature},
   maxAttempts : 0..MaxAttemptsBound,
   enableDetailedLogging : {FALSE}]

M(v) == Member(<<"m">>, v)
C(v) == Member(<<"c">>, v)
S(ch) == Str(<<ch>>)

\* answers that are the JSON text of a value
WellFormedAnswers ==
  { Obj(<<M(S("h")), C(S("r"))>>),
    Obj(<<M(S("a")), C(S("r"))>>),
    Obj(<<M(Str(<<"h", ":", "x">>)), C(S("r"))>>),
    Obj(<<M(Num(5)), C(S("r"))>>),
    Obj(<<M(Num(5))>>),
    Obj(<<M(Arr(<<S("a"), S("h")>>)), C(S("r"))>>),
    Obj(<<M(Arr(<<>>)), C(S("r"))>>),
    Obj(<<C(S("r"))>>),
    Obj(<<M(S("h"))>>),
    Num(5),
    Null,
    Arr(<<>>),
    Arr(<<Num(1)>>),
    Arr(<<Obj(<<M(S("s")), C(S("r"))>>)>>),
    Arr(<<Obj(<<M(S("a")), C(S("r"))>>), Obj(<<M(S("h")), C(S("r"))>>)>>),
    Arr(<<Obj(<<M(S("h")), C(S("r"))>>), Obj(<<C(S("r"))>>)>>) }

\* answers written as the model writes them: single quotes, an apostrophe
\* inside a word, and text that is not JSON
Contents ==
  {Null}
  \cup {Str(JSONstringify(v)) : v \in WellFormedAnswers}
  \cup {Str(s) : s \in
       { <<"{", SQ, "m", SQ, ":", SQ, "s", SQ, ",", SQ, "c", SQ, ":", SQ, "r",
           SQ, "}">>,
         <<"{", DQ, "m", DQ, ":", DQ, "h", DQ, ",", DQ, "c", DQ, ":", DQ, "i",
           "t", SQ, "s", DQ, "}">>,
         <<"{", DQ, "m", DQ, ":">>,
         <<"o", "k">> }}

\* errors of the provider: transport, authentication, quota
ProviderErrors ==
  { Err("APIConnectionError", <<"Connection error.">>),
    Err("AuthenticationError", <<"401 Incorrect API key provided">>),
    Err("RateLimitError", <<"429 You exceeded your current quota">>) }

None == [kind |-> "none"]
Returned(v) == [kind |-> "return", value |-> v]
Thrown(e) == [kind |-> "throw", error |-> e]
NoFailure == [attempt |-> 0, result |-> <<>>, error |-> NoError]
NoRequestFailed == [request |-> 0, error |-> NoError]

isListInput == IsArray(userInputPrompt)
jsonifiedFormat == JSONstringify(expectedResponseFormat)
expectedDynamic == expectedDynamicOutput(jsonifiedFormat)
expectedList == expectedListOutput(jsonifiedFormat)

(***************************************************************************)
(* gptPerfect.                                                             *)
(***************************************************************************)
Init ==
  /\ userInputPrompt \in UserInputs
  /\ expectedResponseFormat \in ExpectedFormats
  /\ config \in Configs
  /\ pc = "loop"
  /\ i = 0
  /\ errorMessage = <<>>
  /\ prompt = <<>>
  /\ inflight = <<>>
  /\ response = Null
  /\ result = <<>>
  /\ output = <<>>
  /\ outcome = None
  /\ requests = 0
  /\ received = 0
  /\ passed = 0
  /\ lastFailure = NoFailure
  /\ failedAt = NoRequestFailed

LoopConditionInclusive(index, maxAttempts) == index <= maxAttempts

\* line 71: i < maxAttempts
LoopCondition(index, maxAttempts) == index < maxAttempts

AttemptWithoutAwait ==
  /\ pc = "loop"
  /\ LoopCondition(i, config.maxAttempts)
  /\ prompt' = buildPrompt(SystemPrompt, expectedResponseFormat, expectedList,
                           expectedDynamic, isListInput, errorMessage)
  /\ inflight' = Append(inflight,
                        getAIResponse(prompt', config.temperature,
                                      config.aiModel, userInputPrompt))
  /\ requests' = requests + 1
  /\ pc' = IF Len(inflight) >= 1 THEN "await" ELSE "loop"
  /\ UNCHANGED <<userInputPrompt, expectedResponseFormat, config, i,
                 errorMessage, response, result, output, outcome, received,
                 passed, lastFailure, failedAt>>

\* lines 71-87: the loop goes on, the prompt is built and the request issued
Attempt ==
  /\ pc = "loop"
  /\ LoopCondition(i, config.maxAttempts)
  /\ prompt' = buildPrompt(SystemPrompt, expectedResponseFormat, expectedList,
                           expectedDynamic, isListInput, errorMessage)
  /\ inflight' = Append(inflight,
                        getAIResponse(prompt', config.temperature,
                                      config.aiModel, userInputPrompt))
  /\ requests' = requests + 1
  /\ pc' = "await"
  /\ UNCHANGED <<userInputPrompt, expectedResponseFormat, config, i,
                 errorMessage, response, result, output, outcome, received,
                 passed, lastFailure, failedAt>>

\* lines 71, 111: the loop is over, the empty array is returned
Exhausted ==
  /\ pc = "loop"
  /\ ~LoopCondition(i, config.maxAttempts)
  /\ outcome' = Returned(Arr(<<>>))
  /\ pc' = "done"
  /\ UNCHANGED <<userInputPrompt, expectedResponseFormat, config, i,
                 errorMessage, prompt, inflight, response, result, output,
                 requests, received, passed, lastFailure, failedAt>>

RequestFailsRetried ==
  /\ pc = "await"
  /\ inflight # <<>>
  /\ \E e \in ProviderErrors :
       /\ errorMessage' = formatErrorMessage(result, e)
       /\ failedAt' = [request |-> requests, error |-> e]
  /\ inflight' = Tail(inflight)
  /\ i' = i + 1
  /\ pc' = "loop"
  /\ UNCHANGED <<userInputPrompt, expectedResponseFormat, config, prompt,
                 response, result, output, outcome, requests, received,
                 passed, lastFailure>>

\* line 81: the awaited request rejects, outside of the try block
RequestFails ==
  /\ pc = "await"
  /\ inflight # <<>>
  /\ \E e \in ProviderErrors :
       /\ outcome' = Thrown(e)
       /\ failedAt' = [request |-> requests, error |-> e]
  /\ inflight' = Tail(inflight)
  /\ pc' = "done"
  /\ prompt' = <<>>
  /\ UNCHANGED <<userInputPrompt, expectedResponseFormat, config, i,
                 errorMessage, response, result, output, requests, received,
                 passed, lastFailure>>

\* line 212: the provider answers without any choice, choices[0] is undefined
NoChoice ==
  /\ pc = "await"
  /\ inflight # <<>>
  /\ inflight' = Tail(inflight)
  /\ outcome' = Thrown(TypeError("Cannot read properties of undefined"))
  /\ pc' = "done"
  /\ prompt' = <<>>
  /\ UNCHANGED <<userInputPrompt, expectedResponseFormat, config, i,
                 errorMessage, response, result, output, requests, received,
                 passed, lastFailure, failedAt>>

Validated(text) ==
  validateAndFormatOutput(text, isListInput, expectedResponseFormat,
                          config.defaultResponse, config.returnValuesOnly)

ReturnValueNoUnwrap(isList, validated) == Arr(validated)

\* line 104: isListInput ? output : output[0]
ReturnValue(isList, validated) == IF isList THEN Arr(validated) ELSE validated[1]

\* lines 96-104: validation of the normalized text returned v
Accepting(text, v) ==
  /\ v.ok
  /\ result' = text
  /\ output' = v.output
  /\ outcome' = Returned(ReturnValue(isListInput, v.output))

\* lines 96-108: validation of the normalized text threw v.error
Rejecting(text, v) ==
  /\ ~v.ok
  /\ result' = text
  /\ errorMessage' = formatErrorMessage(text, v.error)
  /\ lastFailure' = [attempt |-> i + 1, result |-> text, error |-> v.error]

AcceptWithoutReturn ==
  /\ pc = "await"
  /\ inflight # <<>>
  /\ \E content \in Contents :
       LET text == parseAIResponse(content)
       IN  /\ Validated(text).ok
           /\ response' = content
           /\ result' = text
           /\ output' = Validated(text).output
  /\ inflight' = Tail(inflight)
  /\ prompt' = <<>>
  /\ received' = received + 1
  /\ passed' = i + 1
  /\ i' = i + 1
  /\ pc' = "loop"
  /\ UNCHANGED <<userInputPrompt, expectedResponseFormat, config,
                 errorMessage, outcome, requests, lastFailure, failedAt>>

\* lines 88-104: the answer is normalized, validated and returned.  Logging
\* (lines 90-93, 107) writes to the console only and is left out.
Accept ==
  /\ pc = "await"
  /\ inflight # <<>>
  /\ \E content \in Contents :
       /\ response' = content
       /\ Accepting(parseAIResponse(content),
                    Validated(parseAIResponse(content)))
  /\ inflight' = Tail(inflight)
  /\ prompt' = <<>>
  /\ received' = received + 1
  /\ passed' = i + 1
  /\ pc' = "done"
  /\ UNCHANGED <<userInputPrompt, expectedResponseFormat, config, i,
                 errorMessage, requests, lastFailure, failedAt>>

RejectConsumesAttempt ==
  /\ pc = "await"
  /\ inflight # <<>>
  /\ \E content \in Contents :
       /\ response' = content
       /\ Rejecting(parseAIResponse(content),
                    Validated(parseAIResponse(content)))
  /\ inflight' = Tail(inflight)
  /\ prompt' = <<>>
  /\ received' = received + 1
  /\ config' = [config EXCEPT !.maxAttempts = @ - 1]
  /\ pc' = "loop"
  /\ UNCHANGED <<userInputPrompt, expectedResponseFormat, i, output,
                 outcome, requests, passed, failedAt>>

RejectWithoutIncrement ==
  /\ pc = "await"
  /\ inflight # <<>>
  /\ \E content \in Contents :
       /\ response' = content
       /\ Rejecting(parseAIResponse(content),
                    Validated(parseAIResponse(content)))
  /\ inflight' = Tail(inflight)
  /\ prompt' = <<>>
  /\ received' = received + 1
  /\ pc' = "loop"
  /\ UNCHANGED <<userInputPrompt, expectedResponseFormat, config, i, output,
                 outcome, requests, passed, failedAt>>

\* lines 88-108, 71: the answer is normalized, validation throws, the error
\* becomes the error message and the loop index is incremented
Reject ==
  /\ pc = "await"
  /\ inflight # <<>>
  /\ \E content \in Contents :
       /\ response' = content
       /\ Rejecting(parseAIResponse(content),
                    Validated(parseAIResponse(content)))
  /\ inflight' = Tail(inflight)
  /\ prompt' = <<>>
  /\ received' = received + 1
  /\ i' = i + 1
  /\ pc' = "loop"
  /\ UNCHANGED <<userInputPrompt, expectedResponseFormat, config, output,
                 outcome, requests, passed, failedAt>>

Next ==
  \/ Attempt
  \/ Exhausted
  \/ RequestFails
  \/ NoChoice
  \/ Accept
  \/ Reject

Spec == Init /\ [][Next]_vars

\* the event loop runs gptPerfect whenever it can go on, and every completion
\* request eventually returns or fails
ProviderAnswers == RequestFails \/ NoChoice \/ Accept \/ Reject

FairSpec ==
  /\ Spec
  /\ WF_vars(Attempt)
  /\ WF_vars(Exhausted)
  /\ WF_vars(ProviderAnswers)

(***************************************************************************)
(* parseAIResponse by itself, applied to every text over a small alphabet: *)
(* a word character, a digit, the two quotes and a punctuation character.  *)
(***************************************************************************)
NormAlphabet == {"a", "1", SQ, DQ, ":"}

NormTexts == UNION {[1..len -> NormAlphabet] : len \in 0..MaxTextLen}

NormInit ==
  /\ userInputPrompt = Text(<<"a">>)
  /\ expectedResponseFormat = Obj(<<>>)
  /\ config \in {c \in Configs : /\ c.maxAttempts = 1
                                 /\ c.defaultResponse = <<>>
                                 /\ ~c.returnValuesOnly}
  /\ pc = "normalize"
  /\ i = 0
  /\ errorMessage = <<>>
  /\ prompt = <<>>
  /\ inflight = <<>>
  /\ response \in {Str(t) : t \in NormTexts}
  /\ result = <<>>
  /\ output = <<>>
  /\ outcome = None
  /\ requests = 1
  /\ received = 1
  /\ passed = 0
  /\ lastFailure = NoFailure
  /\ failedAt = NoRequestFailed

\* line 88: result = parseAIResponse(response)
Normalize ==
  /\ pc = "normalize"
  /\ result' = parseAIResponse(response)
  /\ pc' = "normalized"
  /\ UNCHANGED <<userInputPrompt, expectedResponseFormat, config, i,
                 errorMessage, prompt, inflight, response, output, outcome,
                 requests, received, passed, lastFailure, failedAt>>

NormSpec == NormInit /\ [][Normalize]_vars

(***************************************************************************)
(* Properties of the retry loop.                                           *)
(***************************************************************************)
AllRequestsAnswered == received = requests

\* C1: when every completion that the provider returns fails parsing or
\* validation, the invocation issues exactly maxAttempts completion
\* requests and returns the empty sequence, and it raises no error.
C1_AllFailReturnsEmpty ==
  /\ (AllRequestsAnswered /\ passed = 0) => outcome.kind # "throw"
  /\ (pc = "done" /\ AllRequestsAnswered /\ passed = 0) =>
       /\ outcome = Returned(Arr(<<>>))
       /\ requests = config.maxAttempts
       /\ lastFailure.attempt = config.maxAttempts

C1_Witness ==
  /\ pc = "done"
  /\ AllRequestsAnswered
  /\ passed = 0
  /\ requests >= 2
  /\ outcome = Returned(Arr(<<>>))

\* the positions of the header of the error section in a prompt
ErrorHeaders(p) == {n \in 1..Len(p) : p[n] = ErrorHeader}

\* C2: the prompt of attempt 1 has no error section; the prompt of every
\* attempt k >= 2 has one error section, which holds the error description
\* of the failure of attempt k - 1 and nothing of an earlier attempt.
C2_PromptCarriesLatestError ==
  pc = "await" =>
    /\ i = 0 => ErrorHeaders(prompt) = {}
    /\ i >= 1 =>
         /\ lastFailure.attempt = i
         /\ Cardinality(ErrorHeaders(prompt)) = 1
         /\ \A n \in ErrorHeaders(prompt) :
              SubSeq(prompt, n + 1, Len(prompt)) =
                <<"Result:\n">> \o lastFailure.result
                \o <<"\n\nError Message:\n">>
                \o ErrorToString(lastFailure.error) \o <<"\n">>

C2_Witness ==
  /\ pc = "await"
  /\ i >= 2
  /\ lastFailure.attempt = i
  /\ ErrorHeaders(prompt) # {}

\* C3: once an attempt passes validation the invocation returns the
\* validated output of that attempt and issues no further request: the
\* number of requests is the index of the first passing attempt, and an
\* invocation that has ended takes no further step.
C3_SuccessEndsInvocation ==
  /\ [](passed # 0 =>
          /\ pc = "done"
          /\ inflight = <<>>
          /\ requests = passed
          /\ lastFailure.attempt = passed - 1
          /\ output = Validated(result).output
          /\ outcome = Returned(IF isListInput THEN Arr(output) ELSE output[1]))
  /\ [][pc = "done" => vars' = vars]_vars

C3_Witness ==
  /\ passed >= 2
  /\ pc = "done"
  /\ requests = passed
  /\ requests < config.maxAttempts
  /\ outcome.kind = "return"

\* C4: when a completion request fails, the invocation ends at once with
\* that error thrown to the caller: no further request is issued, the
\* failure does not become the error description of a next attempt, and
\* nothing is returned.
C4_ProviderErrorPropagates ==
  /\ [](failedAt.request # 0 =>
          /\ pc = "done"
          /\ failedAt.error \in ProviderErrors
          /\ outcome = Thrown(failedAt.error)
          /\ requests = failedAt.request
          /\ inflight = <<>>
          /\ i = failedAt.request - 1
          /\ lastFailure.attempt = i
          /\ errorMessage = IF i = 0 THEN <<>>
                            ELSE formatErrorMessage(lastFailure.result,
                                                    lastFailure.error))
  /\ [][failedAt.request # 0 => vars' = vars]_vars

C4_Witness ==
  /\ failedAt.request >= 2
  /\ failedAt.request < config.maxAttempts
  /\ outcome.kind = "throw"
  /\ pc = "done"

(***************************************************************************)
(* Properties of validation.  They speak of the latest completion: its     *)
(* normalized text is result, and it was accepted when passed = received.  *)
(***************************************************************************)
Parsed == JSONparse(result)
Answered == received > 0
Accepted == passed # 0
RejectedWith(errors) ==
  /\ passed = 0
  /\ lastFailure.attempt = received
  /\ lastFailure.result = result
  /\ lastFailure.error \in errors

\* the items of the parsed answer, as validateAndFormatOutput walks them
ParsedItems == IF isListInput THEN Parsed.v.a ELSE <<Parsed.v>>
ShapeMatches == Parsed.ok /\ (isListInput => IsArray(Parsed.v))

\* the items that the caller received
ReturnedItems == IF isListInput THEN outcome.value.a ELSE <<outcome.value>>

RequiredKeys ==
  {k \in {expectedResponseFormat.p[n].k : n \in 1..Len(expectedResponseFormat.p)} :
     ~HasPlaceholder(k)}
EnumKeys == {k \in RequiredKeys : IsArray(Get(expectedResponseFormat, k))}
MissingKeyErrors == {MissingKeyError(k) : k \in RequiredKeys}

\* C5: with a scalar input, an answer whose text parses to an array fails
\* the attempt with a shape error and is never accepted or returned,
\* whatever the expected format.  The formula states the part about
\* acceptance.
C5_ScalarInputRejectsArray ==
  (Answered /\ ~isListInput /\ Parsed.ok /\ IsArray(Parsed.v)) => ~Accepted

\* C6: with a list input, an answer whose text parses to a value that is
\* not an array fails the attempt with the shape error, before any item is
\* validated; the failure is the error description of the next prompt and
\* the answer is never returned.
C6_ListInputRejectsNonArray ==
  (Answered /\ isListInput /\ Parsed.ok /\ ~IsArray(Parsed.v)) =>
    /\ RejectedWith({NotArrayError})
    /\ outcome.kind = "return" => outcome = Returned(Arr(<<>>))
    /\ errorMessage = <<"Result:\n">> \o result \o <<"\n\nError Message:\n">>
                      \o <<"Error", ": ",
                           "Output format not in an array of json">>
    /\ (pc = "await" =>
          \E n \in ErrorHeaders(prompt) :
            SubSeq(prompt, n + 1, Len(prompt)) = errorMessage \o <<"\n">>)

C6_Witness ==
  /\ isListInput
  /\ pc = "await"
  /\ Parsed.ok
  /\ Parsed.v.t = "obj"
  /\ \A k \in RequiredKeys : HasKey(Parsed.v, k)
  /\ RequiredKeys # {}
  /\ lastFailure.error = NotArrayError

\* C7: with returnValuesOnly every returned item is the sequence of the
\* values of the item, its keys discarded, and not a keyed record.  The
\* formula states this half of the claim.
C7_ValuesOnlyProjection ==
  (Accepted /\ config.returnValuesOnly) =>
    \A n \in 1..Len(ReturnedItems) : ReturnedItems[n].t # "obj"

Collapsed(v) ==
  IF IsArray(v) THEN (IF v.a = <<>> THEN Undefined ELSE v.a[1]) ELSE v

\* the value of an enum field is none of the declared choices
OutOfVocabulary(k, v) == ~Includes(Get(expectedResponseFormat, k).a, v)

ItemsHaveRequiredKeys ==
  \A n \in 1..Len(ParsedItems) :
    /\ ParsedItems[n].t = "obj"
    /\ \A k \in RequiredKeys : HasKey(ParsedItems[n], k)

C9_MissingKeyFailsWithMissingField ==
  (Answered /\ ShapeMatches) =>
    \A n \in 1..Len(ParsedItems) : \A k \in RequiredKeys :
      (ParsedItems[n].t \in {"obj", "arr"} /\ ~HasKey(ParsedItems[n], k))
        => RejectedWith(MissingKeyErrors)

\* C10: on success a scalar input gets the single validated item itself,
\* not a sequence of one item, and a list input gets the sequence of the
\* validated items.
C10_ScalarInputUnwrapped ==
  Accepted =>
    /\ output = Validated(result).output
    /\ outcome.kind = "return"
    /\ isListInput => outcome.value = Arr(output)
    /\ ~isListInput =>
         /\ Len(output) = 1
         /\ outcome.value = output[1]
         /\ outcome.value # Arr(output)

C10_Witness ==
  /\ Accepted
  /\ ~isListInput
  /\ outcome.kind = "return"
  /\ outcome.value.t = "obj"
  /\ outcome.value = Parsed.v

\* C11: with a list input, the sequence that a successful invocation returns
\* has exactly one item per element of the input list.
C11_ListOutputParallel ==
  (Accepted /\ isListInput) =>
    Len(outcome.value.a) = Len(userInputPrompt.a)

\* the ways an invocation ends: the validated output of the attempt that
\* passed; the empty sequence once maxAttempts completions have failed
\* validation; the error of the request that returned no completion.
TerminalOutcome ==
  \/ /\ passed # 0
     /\ outcome = Returned(IF isListInput THEN Arr(output) ELSE output[1])
  \/ /\ passed = 0
     /\ received = requests
     /\ requests = config.maxAttempts
     /\ outcome = Returned(Arr(<<>>))
  \/ /\ passed = 0
     /\ received = requests - 1
     /\ outcome.kind = "throw"
     /\ failedAt.request # 0 => outcome = Thrown(failedAt.error)

\* C12: provided every completion request eventually returns or fails,
\* every invocation eventually ends, with the validated output, the empty
\* sequence on exhaustion or a propagated error, after at most maxAttempts
\* completion requests, for every maxAttempts >= 0.
C12_Terminates ==
  /\ <>(pc = "done")
  /\ [](requests <= config.maxAttempts)
  /\ [](pc = "done" => TerminalOutcome)

C12_Witness ==
  /\ pc = "done"
  /\ config.maxAttempts >= 3
  /\ requests = config.maxAttempts
  /\ lastFailure.attempt = requests - 1
  /\ TerminalOutcome

\* C13: at most one completion request is in flight at any time; the
\* request of attempt k + 1 is issued, with its prompt built, only after the
\* completion of attempt k has been received and normalized and has failed
\* validation.
C13_OneRequestInFlight ==
  /\ Len(inflight) <= 1
  /\ requests - received \in {0, 1}
  /\ (pc = "await") = (inflight # <<>>)
  /\ inflight # <<>> =>
       /\ inflight[1].system = prompt
       /\ requests = i + 1
       /\ received = i
       /\ passed = 0
       /\ lastFailure.attempt = i
       /\ i >= 1 =>
            /\ result = parseAIResponse(response)
            /\ lastFailure.result = result
            /\ ~Validated(result).ok
            /\ lastFailure.error = Validated(result).error

C13_Witness ==
  /\ pc = "await"
  /\ Len(inflight) = 1
  /\ requests = 3
  /\ received = 2
  /\ response # Null
  /\ Parsed.ok

\* C14: an invocation returns the empty sequence only when all maxAttempts
\* attempts failed validation: no attempt passed, and maxAttempts
\* completions were received and rejected.  The formula states the claim
\* for a list input.
C14_EmptyMeansNoConformingOutput ==
  (pc = "done" /\ isListInput /\ outcome = Returned(Arr(<<>>))) =>
    /\ passed = 0
    /\ received = config.maxAttempts
    /\ lastFailure.attempt = config.maxAttempts

\* item n of the parsed answer, validated by itself
ItemAlone(n) ==
  validateOutputItem(ParsedItems[n], expectedResponseFormat,
                     config.defaultResponse, config.returnValuesOnly)

FailingItems == {n \in 1..Len(ParsedItems) : ~ItemAlone(n).ok}

\* C15: when an item of the answer fails a check the whole attempt fails,
\* with the error of the first failing item, and none of its items is
\* returned; the output of a successful invocation holds, for every item of
\* the answer of one attempt, that item as validation left it.
C15_NoPartialAcceptance ==
  (Answered /\ ShapeMatches) =>
    /\ FailingItems # {} =>
         /\ RejectedWith({ItemAlone(n).error : n \in FailingItems})
         /\ \A n \in FailingItems :
              (\A j \in FailingItems : n <= j) =>
                lastFailure.error = ItemAlone(n).error
         /\ outcome.kind = "return" => outcome = Returned(Arr(<<>>))
    /\ Accepted =>
         /\ FailingItems = {}
         /\ Len(output) = Len(ParsedItems)
         /\ \A n \in 1..Len(output) : output[n] = ItemAlone(n).item
         /\ ReturnedItems = output

C15_Witness ==
  /\ Answered
  /\ isListInput
  /\ ShapeMatches
  /\ Len(ParsedItems) = 2
  /\ FailingItems = {2}
  /\ pc = "done"
  /\ outcome = Returned(Arr(<<>>))

\* C16: an answer whose normalized text parses, whose shape matches the
\* input and whose items each hold every key of the expected format without
\* a placeholder always passes validation, whatever the type of the values
\* at enum fields (string, number, null, empty array).
C16_OnlyThreeCausesOfFailure ==
  (Answered /\ ShapeMatches /\ ItemsHaveRequiredKeys) =>
    (Accepted /\ passed = received)

ChoicesOf(k) ==
  {Get(expectedResponseFormat, k).a[n] :
     n \in 1..Len(Get(expectedResponseFormat, k).a)}

\* C17, as claimed: in every accepted item, when defaultResponse is not
\* empty, the value of each enum field is one of the declared choices or
\* the default cut at its first colon.
C17_ChoiceOrDefault ==
  (Accepted /\ config.defaultResponse # <<>>) =>
    \A n \in 1..Len(output) : \A k \in EnumKeys :
      Get(output[n], k) \in
        ChoicesOf(k) \cup {Str(BeforeColon(config.defaultResponse))}

\* C17, amended: in every accepted item, when defaultResponse is not empty,
\* the value of each enum field whose key has no placeholder is a declared
\* choice cut at its first colon, when the value of the answer (an array
\* value being collapsed to its first element) is that choice, and the
\* default cut at its first colon otherwise.
C17_ChoiceOrDefaultTruncated ==
  (Accepted /\ config.defaultResponse # <<>>) =>
    \A n \in 1..Len(output) : \A k \in EnumKeys :
      Get(output[n], k) =
        IF Collapsed(Get(ParsedItems[n], k)) \in ChoicesOf(k)
        THEN Str(BeforeColon(Collapsed(Get(ParsedItems[n], k)).s))
        ELSE Str(BeforeColon(config.defaultResponse))

C17_Witness ==
  /\ Accepted
  /\ config.defaultResponse # <<>>
  /\ \E n \in 1..Len(output) : \E k \in EnumKeys :
       /\ Collapsed(Get(ParsedItems[n], k)) \in ChoicesOf(k)
       /\ HasColon(Collapsed(Get(ParsedItems[n], k)).s)
       /\ Get(output[n], k) \notin ChoicesOf(k)

\* the string value of an enum field holds no colon
NoColon(v) == v.t = "str" => ~HasColon(v.s)

\* what a string value v of the enum field k resolves to
Resolved(k, v) ==
  IF OutOfVocabulary(k, v) /\ config.defaultResponse # <<>>
  THEN Str(BeforeColon(config.defaultResponse))
  ELSE Str(BeforeColon(v.s))

\* C18: the value of an enum field is resolved by the array collapse, then
\* the default substitution, then the cut at the first colon, so in every
\* accepted item no string value of an enum field holds a colon; a value
\* 'choice: commentary', which is no declared choice, becomes 'choice' when
\* no default is configured and the default, cut like any value, when one
\* is configured.
C18_NoColonInEnumFields ==
  Accepted =>
    \A n \in 1..Len(output) : \A k \in EnumKeys :
      /\ NoColon(Get(output[n], k))
      /\ Collapsed(Get(ParsedItems[n], k)).t = "str" =>
           Get(output[n], k) = Resolved(k, Collapsed(Get(ParsedItems[n], k)))
      /\ ( /\ Get(ParsedItems[n], k).t = "str"
           /\ HasColon(Get(ParsedItems[n], k).s)
           /\ OutOfVocabulary(k, Get(ParsedItems[n], k)) ) =>
           Get(output[n], k) =
             IF config.defaultResponse = <<>>
             THEN Str(BeforeColon(Get(ParsedItems[n], k).s))
             ELSE Str(BeforeColon(config.defaultResponse))

C18_Witness ==
  /\ Accepted
  /\ HasColon(config.defaultResponse)
  /\ \E n \in 1..Len(output) : \E k \in EnumKeys :
       /\ Get(ParsedItems[n], k) = Str(<<"h", ":", "x">>)
       /\ OutOfVocabulary(k, Get(ParsedItems[n], k))
       /\ Get(output[n], k) = Str(<<"n">>)

(***************************************************************************)
(* Properties of parseAIResponse.                                          *)
(***************************************************************************)
Normalized == pc = "normalized"
Raw == response.s

\* position n of text s lies between two word characters
BetweenWords(s, n) ==
  /\ 1 < n
  /\ n < Len(s)
  /\ IsWord(s[n - 1])
  /\ IsWord(s[n + 1])

\* C19: a text without a single quote is returned unchanged; otherwise
\* every single quote that is not between two word characters becomes a
\* double quote and every single quote between two word characters is
\* kept.  The formula states the claim about the single quotes.
C19_SingleQuotesNormalized ==
  Normalized =>
    /\ Len(result) = Len(Raw)
    /\ \A n \in 1..Len(Raw) :
         Raw[n] = SQ =>
           result[n] = IF BetweenWords(Raw, n) THEN SQ ELSE DQ

(***************************************************************************)
(* Frame of an invocation.                                                 *)
(***************************************************************************)
\* C20: no step of an invocation changes the expected format or the
\* configuration (default response, value-only flag, model, temperature,
\* maxAttempts), a failed attempt and a default substitution included; from
\* one attempt to the next, of the state of gptPerfect only the attempt
\* counter and the error description change: issuing a request changes
\* neither, a failed attempt adds one to the counter and sets the error
\* description of its failure.
C20_ArgumentsUnchanged ==
  /\ [][ /\ expectedResponseFormat' = expectedResponseFormat
         /\ config' = config
         /\ userInputPrompt' = userInputPrompt ]_vars
  /\ [][ (pc = "loop" /\ pc' = "await") =>
           (i' = i /\ errorMessage' = errorMessage /\ outcome' = outcome) ]_vars
  /\ [][ (pc = "await" /\ pc' = "loop") =>
           /\ i' = i + 1
           /\ outcome' = outcome
           /\ errorMessage' = formatErrorMessage(lastFailure'.result,
                                                 lastFailure'.error) ]_vars

C20_Witness ==
  /\ pc = "loop"
  /\ i >= 2
  /\ config.defaultResponse # <<>>
  /\ Parsed.ok
  /\ Parsed.v = Obj(<<M(Num(5))>>)
  /\ lastFailure.error = MissingKeyError(<<"c">>)
  /\ errorMessage # <<>>

====
